---- MODULE Spec2Model ----
(***************************************************************************)
(* Lifecycle hooks of the Warpio session event-recording subsystem.        *)
(*                                                                         *)
(* Every hook is a short-lived process started by the agent runtime: it    *)
(* gets an environment and one envelope on stdin, may touch the            *)
(* filesystem, writes to stdout/stderr and exits.  One action models one   *)
(* whole invocation; the variables hold the filesystem (which outlives the *)
(* invocation) and the observable outcome of the last invocation.          *)
(***************************************************************************)
EXTENDS Integers, Sequences, FiniteSets, TLC

VARIABLES
    hook,        \* handler run by the last invocation ("none" before the first)
    input,       \* envelope that was on its stdin
    env,         \* its process environment (WARPIO_LOG, WORKFLOW_DIR)
    consumed,    \* TRUE when it read stdin
    read,        \* the transcript lines it read (<<>> when it read none)
    changed,     \* TRUE when it left the filesystem other than it found it
    at,          \* the second at which it ran
    stdout,      \* what it wrote to stdout, in order
    stderr,      \* what it wrote to stderr, in order
    exitStatus,  \* its exit status (-1 before the first invocation)
    state,       \* dispatch state: "idle", "responded", "exited", "failed"
    perm,        \* filesystem: permission of every log directory candidate
    logRootOk,   \* filesystem: TRUE when the session log root can be written
    logs,        \* filesystem: daily log files, per directory and record kind
    sessions,    \* filesystem: session directories and their artifacts
    transcript,  \* filesystem: lines of the session transcript (runtime-owned)
    probes,      \* filesystem: log directories that hold a .test_write file
    procs,       \* hook processes that run step by step, by process id
    now          \* wall clock, in seconds

callVars == <<hook, input, env, consumed, read, changed, at,
              stdout, stderr, exitStatus, state>>

vars == <<callVars, perm, logRootOk, logs, sessions, transcript, probes, procs, now>>

----------------------------------------------------------------------------
(* Bounds of the model *)

MaxLog == 1          \* records appended to the daily logs, all files together
MaxToolLines == 2    \* transcript lines in the classification specification
MaxRefLines == 6     \* transcript lines in the recent-files specification
MaxReportLines == 12 \* transcript lines in the report specification
MaxClock == 1        \* last second the clock reaches
MaxParseLines == 3   \* transcript lines in the parsing specification
MaxProcs == 2        \* hook processes that run step by step

(* Program constants *)

RecentLimit == 5     \* len(last_files) < 5
ReportLimit == 10    \* files_processed[:10]
TaskPreview == 200   \* str(tool_input)[:200]
ResultPreview == 500 \* str(result)[:500]

----------------------------------------------------------------------------
(* Generic helpers *)

Min(a, b) == IF a < b THEN a ELSE b

Range(s) == {s[i] : i \in 1..Len(s)}

Unset == "<unset>"   \* os.getenv / os.environ.get found no such variable

----------------------------------------------------------------------------
(* Envelopes: what the runtime puts on stdin.                              *)
(* kind: "empty" (no bytes), "text" (not JSON), "nonobject" (JSON, but not *)
(* an object), "object".  The other fields are the keys of the object; a   *)
(* key the object does not carry holds Unset (strings) or NoPayload.       *)

NoPayload == [present |-> FALSE, truthy |-> FALSE, strlen |-> 0]

\* a payload is opaque to the hooks: they only take bool(p) and len(str(p))
Payload(truthy, strlen) == [present |-> TRUE, truthy |-> truthy, strlen |-> strlen]

BlankEnvelope ==
    [kind |-> "object", session_id |-> Unset, transcript_path |-> Unset,
     trigger |-> Unset, tool_name |-> Unset, tool_input |-> NoPayload,
     subagent_name |-> Unset, subagent_type |-> Unset, result |-> NoPayload]

EmptyInput == [BlankEnvelope EXCEPT !.kind = "empty"]
TextInput == [BlankEnvelope EXCEPT !.kind = "text"]
NonObjectInput == [BlankEnvelope EXCEPT !.kind = "nonobject"]

\* json.load(sys.stdin): raises JSONDecodeError on empty or non-JSON input
JsonLoad(inp) ==
    IF inp.kind \in {"empty", "text"} THEN "JSONDecodeError" ELSE "ok"

\* input_data.get(key, default): AttributeError unless the value is an object
HasGet(inp) == inp.kind = "object"

\* dict.get(key, default) on a decoded envelope, for string-valued keys
GetStr(value, default) == IF value = Unset THEN default ELSE value

\* dict.get(key, {}) for payload keys: the default {} is falsy, str({}) = "{}"
GetPayload(p) == IF p.present THEN p ELSE Payload(FALSE, 2)

\* str(p)[:limit] if p else "": the preview, kept as its length
Preview(p, limit) == IF p.truthy THEN Min(p.strlen, limit) ELSE 0

----------------------------------------------------------------------------
(* Responses on stdout *)

NoContext == "<none>"

\* print(json.dumps({'decision': 'approve', 'reason': reason, ...}))
Response(reason, context) ==
    [kind |-> "json", decision |-> "approve", reason |-> reason,
     hookSpecificOutput |-> context]

\* print(f"... Checkpoint created: {checkpoint_file.name}")
TextLine(name) ==
    [kind |-> "text", decision |-> "", reason |-> "",
     hookSpecificOutput |-> name]

IsApproval(out) == out.kind = "json" /\ out.decision = "approve"

\* the dispatch state an invocation ends in: "responded" once a response
\* object is on stdout, "exited" when it left with status 0 without one,
\* "failed" when the process ended with another status
TerminalState(out, status) ==
    IF status # 0 THEN "failed"
    ELSE IF \E i \in 1..Len(out) : out[i].kind = "json" THEN "responded"
    ELSE "exited"

----------------------------------------------------------------------------
(* Log directories of the dispatch hooks *)

TmpDir == "/tmp/warpio-workflows"
OverrideDir == "/override"
HomeLogs == "~/.warpio/logs"
Cwd == "cwd"

LogDirs == {TmpDir, OverrideDir, HomeLogs, Cwd}
LogKinds == {"tasks", "subagent_results"}

\* "rw": exists or can be created, and files can be written in it
\* "ro": exists or can be created, but no file can be written in it
\* "none": cannot be created (os.makedirs raises OSError)
Perms == {"rw", "ro", "none"}

\* os.makedirs(d, exist_ok=True) returns without raising
MakedirsOk(d) == perm[d] # "none"

\* open(file in d, 'w' or 'a') and the write succeed
WriteOk(d) == perm[d] = "rw"

\* os.environ.get('WORKFLOW_DIR', '/tmp/warpio-workflows')
PrimaryDir(e) == IF e.WORKFLOW_DIR = Unset THEN TmpDir ELSE e.WORKFLOW_DIR

\* mutant: four candidates in order (the override when set, the shared
\* temporary directory, the home directory, the current directory), each
\* returned only after the write-then-delete probe
get_log_directory_probing_all(e) ==
    LET ok(d) == MakedirsOk(d) /\ WriteOk(d)
    IN  IF e.WORKFLOW_DIR # Unset /\ ok(e.WORKFLOW_DIR) THEN e.WORKFLOW_DIR
        ELSE IF ok(TmpDir) THEN TmpDir
        ELSE IF ok(HomeLogs) THEN HomeLogs
        ELSE Cwd

\* get_log_directory: the primary directory when it can be created and the
\* write-then-delete probe passes; else the home directory when it can be
\* created (no probe); else the current directory (no probe)
get_log_directory(e) ==
    IF MakedirsOk(PrimaryDir(e)) /\ WriteOk(PrimaryDir(e)) THEN PrimaryDir(e)
    ELSE IF MakedirsOk(HomeLogs) THEN HomeLogs
    ELSE Cwd

LogCount ==
    LET dirs == <<TmpDir, OverrideDir, HomeLogs, Cwd>>
    IN  Len(logs[dirs[1]].tasks) + Len(logs[dirs[1]].subagent_results)
      + Len(logs[dirs[2]].tasks) + Len(logs[dirs[2]].subagent_results)
      + Len(logs[dirs[3]].tasks) + Len(logs[dirs[3]].subagent_results)
      + Len(logs[dirs[4]].tasks) + Len(logs[dirs[4]].subagent_results)

\* mutant: the daily file is opened with 'w'
AppendLogTruncating(d, kind, entry) ==
    [logs EXCEPT ![d][kind] = <<entry>>]

\* with open(file, 'a') as f: f.write(json.dumps(entry) + '\n')
AppendLog(d, kind, entry) ==
    [logs EXCEPT ![d][kind] = Append(@, entry)]

----------------------------------------------------------------------------
(* PreToolUse task logger *)

TaskEntry(inp, e) ==
    [timestamp |-> now,
     tool |-> GetStr(inp.tool_name, ""),
     input_preview |-> Preview(GetPayload(inp.tool_input), TaskPreview),
     session_id |-> GetStr(e.CLAUDE_SESSION_ID, "unknown")]

\* log_task: the record is appended when the resolved directory takes the
\* write; any exception is reported on stderr and swallowed
LogTaskWrites(e) == WriteOk(get_log_directory(e))

\* the response of task-logger main, by the path taken
TaskLoggerResponse(inp) ==
    IF JsonLoad(inp) = "JSONDecodeError"
    THEN Response("Invalid input format, proceeding normally", NoContext)
    ELSE IF ~HasGet(inp)
    THEN Response("Hook error (continuing)", NoContext)
    ELSE Response("Task logged for orchestration tracking", NoContext)

\* what task-logger main prints before sys.exit(0)
TaskLoggerStdout(inp) == <<TaskLoggerResponse(inp)>>

TaskLoggerMain(e, inp) ==
    LET logged == JsonLoad(inp) = "ok" /\ HasGet(inp)
    IN  /\ logged /\ LogTaskWrites(e) => LogCount < MaxLog
        /\ hook' = "task-logger"
        /\ input' = inp
        /\ env' = e
        /\ consumed' = TRUE
        /\ read' = <<>>
        /\ at' = now
        /\ stdout' = TaskLoggerStdout(inp)
        /\ stderr' = IF logged /\ ~LogTaskWrites(e)
                     THEN <<"Warning: Task logging failed">> ELSE <<>>
        /\ exitStatus' = 0
        /\ state' = TerminalState(stdout', exitStatus')
        /\ logs' = IF logged /\ LogTaskWrites(e)
                   THEN AppendLog(get_log_directory(e), "tasks", TaskEntry(inp, e))
                   ELSE logs
        /\ UNCHANGED <<perm, logRootOk, sessions, transcript, now, probes, procs>>
        /\ changed' = (logs' # logs)

----------------------------------------------------------------------------
(* SubagentStop result aggregator *)

ResultEntry(inp) ==
    [timestamp |-> now,
     subagent |-> GetStr(inp.subagent_name, ""),
     result_preview |-> Preview(GetPayload(inp.result), ResultPreview)]

\* aggregate_results raises when os.makedirs of the fixed directory fails
\* (it is outside the try); a failed append is swallowed
AggregateRaises == ~MakedirsOk(TmpDir)

\* the response of result-aggregator main, by the path taken
AggregatorResponse(inp) ==
    IF JsonLoad(inp) = "JSONDecodeError" \/ ~HasGet(inp) \/ AggregateRaises
    THEN Response("Proceeding normally", NoContext)
    ELSE Response("Subagent results aggregated", GetStr(inp.subagent_name, ""))

\* mutant: the exception of aggregate_results escapes main
AggregatorStdoutUncaught(inp) ==
    IF JsonLoad(inp) = "ok" /\ HasGet(inp) /\ AggregateRaises THEN <<>>
    ELSE <<AggregatorResponse(inp)>>

\* what result-aggregator main prints before sys.exit(0)
AggregatorStdout(inp) == <<AggregatorResponse(inp)>>

ResultAggregatorMain(e, inp) ==
    LET written == JsonLoad(inp) = "ok" /\ HasGet(inp) /\ ~AggregateRaises
                   /\ WriteOk(TmpDir)
    IN  /\ written => LogCount < MaxLog
        /\ hook' = "result-aggregator"
        /\ input' = inp
        /\ env' = e
        /\ consumed' = TRUE
        /\ read' = <<>>
        /\ at' = now
        /\ stdout' = AggregatorStdout(inp)
        /\ stderr' = <<>>
        /\ exitStatus' = 0
        /\ state' = TerminalState(stdout', exitStatus')
        /\ logs' = IF written
                   THEN AppendLog(TmpDir, "subagent_results", ResultEntry(inp))
                   ELSE logs
        /\ UNCHANGED <<perm, logRootOk, sessions, transcript, now, probes, procs>>
        /\ changed' = (logs' # logs)

----------------------------------------------------------------------------
(* PostToolUse performance tracker *)

\* track_performance opens "try:" and dedents before any except/finally:
\* the interpreter rejects the file with a SyntaxError, so main never runs
PerformanceTrackerCompiles == FALSE

PerformanceTrackerMain(e, inp) ==
    /\ ~PerformanceTrackerCompiles
    /\ hook' = "performance-tracker"
    /\ input' = inp
    /\ env' = e
    /\ consumed' = FALSE
    /\ read' = <<>>
    /\ changed' = FALSE
    /\ at' = now
    /\ stdout' = <<>>
    /\ stderr' = <<"SyntaxError: expected 'except' or 'finally' block">>
    /\ exitStatus' = 1
    /\ state' = TerminalState(stdout', exitStatus')
    /\ UNCHANGED <<perm, logRootOk, logs, sessions, transcript, now, probes, procs>>

----------------------------------------------------------------------------
(* Tool names.  A tool name is kept as its sequence of tokens, the         *)
(* separator "__" being a token of its own, so that startswith('mcp__')    *)
(* and split('__') are computed and not assumed:                           *)
(* "mcp__hdf5tools__read" is <<"mcp","__","hdf5","tools","__","read">>.    *)

Sep == "__"
NoTool == <<>>       \* no tool_name key (an empty name behaves the same)

\* tool.startswith('mcp__')
StartsWithMcp(tool) == Len(tool) >= 2 /\ tool[1] = "mcp" /\ tool[2] = Sep

\* tool.split('__'): the pieces between the separators, empty pieces kept
RECURSIVE Split(_)
Split(s) ==
    IF \A i \in 1..Len(s) : s[i] # Sep THEN <<s>>
    ELSE LET i == CHOOSE k \in 1..Len(s) :
                      s[k] = Sep /\ \A j \in 1..(k - 1) : s[j] # Sep
         IN  <<SubSeq(s, 1, i - 1)>> \o Split(SubSeq(s, i + 1, Len(s)))

ExpertNames == {"data-expert", "analysis-expert", "hpc-expert", "research-expert"}

DataServers == {<<"hdf5">>, <<"adios">>, <<"parquet">>}
AnalysisServers == {<<"plot">>, <<"pandas">>}
HpcServers == {<<"darshan">>, <<"node_hardware">>}
ResearchServers == {<<"arxiv">>, <<"context7">>}

NoExpert == "<no bucket>"

\* mutant: the table entries are looked for inside the server piece
ExpertOfServerSubstring(server) ==
    LET has(S) == \E i \in 1..Len(server) : <<server[i]>> \in S
    IN  IF has(DataServers) THEN "data-expert"
        ELSE IF has(AnalysisServers) THEN "analysis-expert"
        ELSE IF has(HpcServers) THEN "hpc-expert"
        ELSE IF has(ResearchServers) THEN "research-expert"
        ELSE NoExpert

\* the if/elif chain over `server in [...]`: list membership, so the server
\* piece has to equal a table entry
ExpertOfServer(server) ==
    IF server \in DataServers THEN "data-expert"
    ELSE IF server \in AnalysisServers THEN "analysis-expert"
    ELSE IF server \in HpcServers THEN "hpc-expert"
    ELSE IF server \in ResearchServers THEN "research-expert"
    ELSE NoExpert

\* parts = tool.split('__'); if len(parts) >= 2: server = parts[1]
ExpertOfTool(tool) ==
    LET parts == Split(tool)
    IN  IF Len(parts) >= 2 THEN ExpertOfServer(parts[2]) ELSE NoExpert

----------------------------------------------------------------------------
(* Transcript lines.                                                       *)
(* json: "corrupt" (json.loads raises), "nonobject" (decodes, not an       *)
(* object), "object".  An object carries the top-level keys subagent_type, *)
(* tool_name and tool_input (Unset / NoTool / "absent" when it lacks one); *)
(* tool_input is "dict" with the key file_path, or "nondict".  mentions    *)
(* holds the words that occur in the text of the line apart from these     *)
(* keys (inside a nested payload, or anywhere in a corrupt line).          *)
(* Identifiers and paths are strings, as in the envelope's data model.     *)

BlankLine ==
    [json |-> "object", mentions |-> {}, subagent_type |-> Unset,
     tool_name |-> NoTool, tool_input |-> "absent", file_path |-> Unset]

CorruptLine(words) == [BlankLine EXCEPT !.json = "corrupt", !.mentions = words]
NonObjectLine(words) == [BlankLine EXCEPT !.json = "nonobject", !.mentions = words]
SubagentLine(name) == [BlankLine EXCEPT !.subagent_type = name]
ToolLine(tool) == [BlankLine EXCEPT !.tool_name = tool]
FileLine(path) == [BlankLine EXCEPT !.tool_input = "dict", !.file_path = path]
\* a Task call: subagent_type occurs inside tool_input only
NestedSubagentLine ==
    [BlankLine EXCEPT !.tool_name = <<"Task">>, !.tool_input = "dict",
                      !.mentions = {"subagent_type"}]
ToolFileLine(tool, path) ==
    [BlankLine EXCEPT !.tool_name = tool, !.tool_input = "dict", !.file_path = path]

\* 'subagent_type' in str(data), and in the raw text of the line
MentionsSubagent(line) ==
    IF line.json = "object" /\ line.subagent_type # Unset THEN TRUE
    ELSE "subagent_type" \in line.mentions

\* 'file_path' in str(data)
MentionsFilePath(line) ==
    IF line.json = "object" /\ line.tool_input = "dict" /\ line.file_path # Unset
    THEN TRUE
    ELSE "file_path" \in line.mentions

\* 'tool_name' in line (raw text)
MentionsToolName(line) ==
    IF line.json = "object" /\ line.tool_name # NoTool THEN TRUE
    ELSE "tool_name" \in line.mentions

\* 'mcp__' in line (raw text)
MentionsMcp(line) ==
    IF line.json = "object"
       /\ \E i \in 1..(Len(line.tool_name) - 1) :
             line.tool_name[i] = "mcp" /\ line.tool_name[i + 1] = Sep
    THEN TRUE
    ELSE "mcp__" \in line.mentions

\* data['tool_input'].get('file_path', ''), when that is a non-empty path
\* ("" when the key is missing, the path is empty, or the lookup raises)
FilePathOf(line) ==
    IF line.json = "object" /\ MentionsFilePath(line) /\ line.tool_input = "dict"
    THEN GetStr(line.file_path, "")
    ELSE ""

TranscriptPath == "t.jsonl"

\* open(transcript_path) and readlines succeed: only for the path of the
\* transcript; '' (no transcript_path key) and any other path raise
Readable(path) == path = TranscriptPath

----------------------------------------------------------------------------
(* list(a_set): the elements in the set's iteration order, which the       *)
(* program does not control.  Small sets take every order; above           *)
(* MaxPermuted elements any element may come first and the rest follows in *)
(* one fixed order.                                                        *)

MaxPermuted == 3

RECURSIVE Canon(_)
Canon(S) ==
    IF S = {} THEN <<>>
    ELSE LET x == CHOOSE y \in S : TRUE IN <<x>> \o Canon(S \ {x})

Orderings(S) ==
    IF Cardinality(S) <= MaxPermuted
    THEN {s \in [1..Cardinality(S) -> S] : Range(s) = S}
    ELSE {<<x>> \o Canon(S \ {x}) : x \in S}

----------------------------------------------------------------------------
(* Stop hook: parse_transcript, the forward scan of the whole transcript *)

EmptyBuckets == [x \in ExpertNames |-> {}]

SummaryStart == [experts |-> {}, buckets |-> EmptyBuckets, total |-> 0, files |-> {}]

\* mutant: the counter is incremented only where a bucket is found
CountToolBucketedOnly(acc, tool) ==
    IF ~StartsWithMcp(tool) \/ ExpertOfTool(tool) = NoExpert THEN acc
    ELSE [acc EXCEPT !.total = @ + 1,
                     !.buckets[ExpertOfTool(tool)] = @ \cup {tool}]

\* the "Track MCP usage" block for one decoded object
CountTool(acc, tool) ==
    IF ~StartsWithMcp(tool) THEN acc
    ELSE LET x == ExpertOfTool(tool)
             counted == [acc EXCEPT !.total = @ + 1]
         IN  IF x = NoExpert THEN counted
             ELSE [counted EXCEPT !.buckets[x] = @ \cup {tool}]

\* mutant: a line that does not decode discards what was gathered so far
SummaryStepCorruptResets(acc, line) ==
    IF line.json = "corrupt" THEN SummaryStart
    ELSE IF line.json # "object" THEN acc
    ELSE LET a1 == IF MentionsSubagent(line)
                   THEN [acc EXCEPT !.experts = @ \cup {GetStr(line.subagent_type, "")}]
                   ELSE acc
             a2 == CountTool(a1, line.tool_name)
         IN  IF FilePathOf(line) # ""
             THEN [a2 EXCEPT !.files = @ \cup {FilePathOf(line)}]
             ELSE a2

\* the body of the loop for one line; a line that does not decode, or that
\* decodes to something else than an object, leaves the summary as it was
\* (json.loads, data.get or data['tool_name'] raises into `continue`)
SummaryStep(acc, line) ==
    IF line.json # "object" THEN acc
    ELSE LET a1 == IF MentionsSubagent(line)
                   THEN [acc EXCEPT !.experts = @ \cup {GetStr(line.subagent_type, "")}]
                   ELSE acc
             a2 == CountTool(a1, line.tool_name)
         IN  IF FilePathOf(line) # ""
             THEN [a2 EXCEPT !.files = @ \cup {FilePathOf(line)}]
             ELSE a2

RECURSIVE SummaryScan(_, _)
SummaryScan(acc, lines) ==
    IF lines = <<>> THEN acc
    ELSE SummaryScan(SummaryStep(acc, Head(lines)), Tail(lines))

\* 'multi-expert' if len(experts_used) > 1, else the initial 'single'
PatternOf(experts) == IF Cardinality(experts) > 1 THEN "multi-expert" ELSE "single"

\* the summary as json.dump writes it; the lists are in the given orders
SummaryRecord(acc, experts, files, buckets, sid) ==
    [wellFormed |-> TRUE,
     experts_used |-> experts,
     mcps_by_expert |-> buckets,
     total_mcp_calls |-> acc.total,
     orchestration_pattern |-> PatternOf(acc.experts),
     files_processed |-> files,
     session_id |-> sid,
     timestamp |-> now]

\* what is left in session-summary.json when json.dump raises on the first
\* key: parse_transcript returned its sets unconverted (the transcript could
\* not be read) and a set is not JSON serializable
BrokenSummary ==
    [wellFormed |-> FALSE,
     experts_used |-> <<>>,
     mcps_by_expert |-> [x \in ExpertNames |-> <<>>],
     total_mcp_calls |-> 0,
     orchestration_pattern |-> "single",
     files_processed |-> <<>>,
     session_id |-> "",
     timestamp |-> now]

FileEntry(f) == [kind |-> "file", file |-> f, more |-> 0]
MoreEntry(n) == [kind |-> "more", file |-> "", more |-> n]

\* mutant: `>=` for `>` in the test for the "more" line
ReportFileLinesOffByOne(files) ==
    [i \in 1..Min(Len(files), ReportLimit) |-> FileEntry(files[i])]
    \o (IF Len(files) >= ReportLimit
        THEN <<MoreEntry(Len(files) - ReportLimit)>> ELSE <<>>)

\* the "## Files Processed" part of summary.md: the first 10 files, then
\* "... and N more" when there are more than 10
ReportFileLines(files) ==
    [i \in 1..Min(Len(files), ReportLimit) |-> FileEntry(files[i])]
    \o (IF Len(files) > ReportLimit
        THEN <<MoreEntry(Len(files) - ReportLimit)>> ELSE <<>>)

ReportOf(summary) ==
    [session_id |-> summary.session_id,
     pattern |-> summary.orchestration_pattern,
     experts |-> summary.experts_used,
     total |-> summary.total_mcp_calls,
     lines |-> ReportFileLines(summary.files_processed)]

----------------------------------------------------------------------------
(* PreCompact hook: create_checkpoint, the backward scan *)

CheckpointStart == [experts |-> {}, last_files |-> <<>>]

\* the body of the loop for one line
CheckpointStep(acc, line) ==
    IF line.json # "object" THEN acc
    ELSE LET a1 == IF MentionsSubagent(line)
                   THEN [acc EXCEPT !.experts = @ \cup {GetStr(line.subagent_type, "")}]
                   ELSE acc
         IN  IF Len(a1.last_files) < RecentLimit /\ FilePathOf(line) # ""
             THEN [a1 EXCEPT !.last_files = Append(@, FilePathOf(line))]
             ELSE a1

\* mutant: the scan runs forward, `reversed` forgotten
RECURSIVE CheckpointScanForward(_, _)
CheckpointScanForward(acc, lines) ==
    IF lines = <<>> THEN acc
    ELSE CheckpointScanForward(CheckpointStep(acc, Head(lines)), Tail(lines))

\* for line in reversed(lines)
RECURSIVE CheckpointScan(_, _)
CheckpointScan(acc, lines) ==
    IF lines = <<>> THEN acc
    ELSE CheckpointScan(CheckpointStep(acc, lines[Len(lines)]),
                        SubSeq(lines, 1, Len(lines) - 1))

ExpertsInstruction(experts) == [kind |-> "experts", experts |-> experts, file |-> ""]
FileInstruction(f) == [kind |-> "file", experts |-> <<>>, file |-> f]

\* "Resume with experts: ..." when any expert was seen, then
\* "Continue processing: <last_files[0]>" when any file was seen
ResumeInstructions(experts, last_files) ==
    (IF experts # <<>> THEN <<ExpertsInstruction(experts)>> ELSE <<>>)
    \o (IF last_files # <<>> THEN <<FileInstruction(last_files[1])>> ELSE <<>>)

\* the checkpoint of a transcript that was read; experts is the order in
\* which the set of experts is listed
create_checkpoint(path, trigger, lines, experts) ==
    IF Readable(path)
    THEN [timestamp |-> now, trigger |-> trigger, transcript |-> path,
          hasState |-> TRUE,
          experts_active |-> experts,
          recent_files |-> CheckpointScan(CheckpointStart, lines).last_files,
          resume_instructions |->
              ResumeInstructions(experts,
                                 CheckpointScan(CheckpointStart, lines).last_files)]
    ELSE [timestamp |-> now, trigger |-> trigger, transcript |-> path,
          hasState |-> FALSE,
          experts_active |-> <<>>,
          recent_files |-> <<>>,
          resume_instructions |-> <<>>]

----------------------------------------------------------------------------
(* SubagentStop hook: extract_expert_info.  The lines are tested as text   *)
(* first and decoded only when a word is found; a line that then fails to  *)
(* decode (or is not an object) raises out of the loop into the one        *)
(* enclosing `except: pass`, which ends the scan with what was gathered.   *)

ExpertStart == [expert |-> "unknown", mcps |-> {}, stopped |-> FALSE]

ExpertStep(acc, line) ==
    IF acc.stopped THEN acc
    ELSE IF MentionsSubagent(line) /\ line.json # "object"
    THEN [acc EXCEPT !.stopped = TRUE]
    ELSE LET a1 == IF MentionsSubagent(line)
                   THEN [acc EXCEPT !.expert = GetStr(line.subagent_type, "unknown")]
                   ELSE acc
         IN  IF ~(MentionsToolName(line) /\ MentionsMcp(line)) THEN a1
             ELSE IF line.json # "object" THEN [a1 EXCEPT !.stopped = TRUE]
             ELSE IF StartsWithMcp(line.tool_name)
             THEN [a1 EXCEPT !.mcps = @ \cup {line.tool_name}]
             ELSE a1

RECURSIVE ExpertScan(_, _)
ExpertScan(acc, lines) ==
    IF lines = <<>> THEN acc
    ELSE ExpertScan(ExpertStep(acc, Head(lines)), Tail(lines))

\* (expert_name, list(set(mcps_used))) for a path; nothing is gathered from
\* a transcript that cannot be opened
extract_expert_info(path, lines) ==
    IF Readable(path) THEN ExpertScan(ExpertStart, lines) ELSE ExpertStart

----------------------------------------------------------------------------
(* Session directories *)

None == <<>>
Some(x) == <<x>>

EmptyDir ==
    [checkpoints |-> <<>>, latest |-> None, summary |-> None, report |-> None,
     expert_log |-> <<>>]

\* f"session-{datetime.now().strftime('%Y%m%d-%H%M%S')}": the second of the call
SessionDirName(t) == t

\* f"checkpoint-{datetime.now().strftime('%H%M%S')}.json"
CheckpointName(t) == t

\* the directory after mkdir(parents=True, exist_ok=True)
DirAt(d) == IF d \in DOMAIN sessions THEN sessions[d] ELSE EmptyDir

PutDir(d, dir) == (d :> dir) @@ sessions

\* mutant: the gate is missing
LoggingEnabledAlways(e) == TRUE

\* if not os.getenv('WARPIO_LOG'): sys.exit(0)
LoggingEnabled(e) == e.WARPIO_LOG # Unset /\ e.WARPIO_LOG # ""

\* json.load(sys.stdin) and the input_data.get calls go through
Decoded(inp) == JsonLoad(inp) = "ok" /\ HasGet(inp)

\* the lines an invocation of a session hook reads from the transcript:
\* none unless it passes the gate, decodes its envelope and can open the path
TranscriptRead(e, inp) ==
    IF LoggingEnabled(e) /\ Decoded(inp) /\ Readable(GetStr(inp.transcript_path, ""))
    THEN transcript ELSE <<>>

\* mutant: main without its try/except, a failed decode ends the process
SessionHookExitUncaught(e, inp) ==
    IF LoggingEnabled(e) /\ ~Decoded(inp) THEN 1 ELSE 0

\* the exit status of the three session hooks: the gate leaves through
\* sys.exit(0), and so does the end of main, the bare `except: pass` having
\* swallowed whatever the pipeline raised
SessionHookExit(e, inp) == 0

----------------------------------------------------------------------------
(* PreCompact workflow-checkpoint main *)

\* latest.exists() follows the link: a dangling link is not seen, and
\* symlink_to then raises FileExistsError
LatestBlocks(dir) ==
    dir.latest # None /\ dir.latest[1] \notin DOMAIN dir.checkpoints

\* the directory after the checkpoint file and the latest pointer are written
WithCheckpoint(dir, name, cp) ==
    LET filed == [dir EXCEPT !.checkpoints = (name :> cp) @@ @]
    IN  IF LatestBlocks(dir) THEN filed ELSE [filed EXCEPT !.latest = Some(name)]

WorkflowCheckpointMain(e, inp) ==
    LET path == GetStr(inp.transcript_path, "")
        scan == CheckpointScan(CheckpointStart, transcript)
        written == LoggingEnabled(e) /\ Decoded(inp) /\ logRootOk
        d == SessionDirName(now)
    IN  \E experts \in Orderings(scan.experts) :
          LET cp == [session_id |-> GetStr(inp.session_id, "")] @@
                    create_checkpoint(path, GetStr(inp.trigger, "manual"),
                                      transcript, experts)
          IN  /\ hook' = "workflow-checkpoint"
              /\ input' = inp
              /\ env' = e
              /\ consumed' = LoggingEnabled(e)
              /\ read' = TranscriptRead(e, inp)
              /\ at' = now
              /\ stdout' = IF written /\ ~LatestBlocks(DirAt(d))
                           THEN <<TextLine(CheckpointName(now))>> ELSE <<>>
              /\ stderr' = <<>>
              /\ exitStatus' = SessionHookExit(e, inp)
              /\ state' = TerminalState(stdout', exitStatus')
              /\ sessions' = IF written
                             THEN PutDir(d, WithCheckpoint(DirAt(d), CheckpointName(now), cp))
                             ELSE sessions
              /\ UNCHANGED <<perm, logRootOk, logs, transcript, now, probes, procs>>
              /\ changed' = (sessions' # sessions)

----------------------------------------------------------------------------
(* Stop session-summary-logger main *)

BucketOrderings(buckets) ==
    {b \in [ExpertNames -> UNION {Orderings(buckets[x]) : x \in ExpertNames}] :
        \A x \in ExpertNames : b[x] \in Orderings(buckets[x])}

\* every summary parse_transcript and main can produce for a readable
\* transcript: one per order of the lists made from the sets
parse_transcript(lines, sid) ==
    LET acc == SummaryScan(SummaryStart, lines)
    IN  {SummaryRecord(acc, experts, files, buckets, sid) :
            experts \in Orderings(acc.experts),
            files \in Orderings(acc.files),
            buckets \in BucketOrderings(acc.buckets)}

\* the directory after session-summary.json and summary.md are written
WithSummary(dir, summary) ==
    [dir EXCEPT !.summary = Some(summary), !.report = Some(ReportOf(summary))]

\* the directory after json.dump raised: the file is there, cut short, and
\* summary.md was not reached
WithBrokenSummary(dir) == [dir EXCEPT !.summary = Some(BrokenSummary)]

SessionSummaryMain(e, inp) ==
    LET path == GetStr(inp.transcript_path, "")
        written == LoggingEnabled(e) /\ Decoded(inp) /\ logRootOk
        d == SessionDirName(now)
    IN  \E summary \in parse_transcript(transcript, GetStr(inp.session_id, "")) :
          /\ hook' = "session-summary-logger"
          /\ input' = inp
          /\ env' = e
          /\ consumed' = LoggingEnabled(e)
          /\ read' = TranscriptRead(e, inp)
          /\ at' = now
          /\ stdout' = <<>>
          /\ stderr' = <<>>
          /\ exitStatus' = SessionHookExit(e, inp)
          /\ state' = TerminalState(stdout', exitStatus')
          /\ sessions' = IF ~written THEN sessions
                         ELSE IF Readable(path)
                         THEN PutDir(d, WithSummary(DirAt(d), summary))
                         ELSE PutDir(d, WithBrokenSummary(DirAt(d)))
          /\ UNCHANGED <<perm, logRootOk, logs, transcript, now, probes, procs>>
          /\ changed' = (sessions' # sessions)

----------------------------------------------------------------------------
(* SubagentStop expert-result-logger main *)

ExpertEntry(info, mcps, sid) ==
    [timestamp |-> now, session_id |-> sid, expert |-> info.expert,
     mcps_used |-> mcps, mcp_count |-> Len(mcps)]

ExpertResultLoggerMain(e, inp) ==
    LET path == GetStr(inp.transcript_path, "")
        info == extract_expert_info(path, transcript)
        written == LoggingEnabled(e) /\ Decoded(inp) /\ logRootOk
        d == SessionDirName(now)
    IN  \E mcps \in Orderings(info.mcps) :
          /\ written => Len(DirAt(d).expert_log) < MaxLog
          /\ hook' = "expert-result-logger"
          /\ input' = inp
          /\ env' = e
          /\ consumed' = LoggingEnabled(e)
          /\ read' = TranscriptRead(e, inp)
          /\ at' = now
          /\ stdout' = <<>>
          /\ stderr' = <<>>
          /\ exitStatus' = SessionHookExit(e, inp)
          /\ state' = TerminalState(stdout', exitStatus')
          /\ sessions' = IF written
                         THEN PutDir(d, [DirAt(d) EXCEPT !.expert_log =
                                 Append(@, ExpertEntry(info, mcps, GetStr(inp.session_id, "")))])
                         ELSE sessions
          /\ UNCHANGED <<perm, logRootOk, logs, transcript, now, probes, procs>>
          /\ changed' = (sessions' # sessions)

----------------------------------------------------------------------------
(* Hook processes, step by step.  The runtime may start a hook while       *)
(* another one runs; each process is then a sequence of system calls, and  *)
(* the steps of the processes interleave.  A process record holds the      *)
(* locals of main: pc (where it stands), dir and file (the paths it        *)
(* computed), data (the checkpoint or log entry it built), and, for the    *)
(* properties, seq (rank of its file write among all writes, 0 before),    *)
(* line (where its record stands in the log, 0 when none), after (the      *)
(* processes that had ended when it started) and printed (its stdout).     *)

NoData == [timestamp |-> -1]

NewProc(h) ==
    [hook |-> h, pc |-> "start", dir |-> "", file |-> -1, data |-> NoData,
     seq |-> 0, line |-> 0,
     after |-> {q \in DOMAIN procs : procs[q].pc = "done"},
     printed |-> <<>>]

\* the id the next process gets
NextPid == Cardinality(DOMAIN procs) + 1

Pids(h, pc) == {q \in DOMAIN procs : procs[q].hook = h /\ procs[q].pc = pc}

\* file writes done so far by the processes
WritesDone == Cardinality({q \in DOMAIN procs : procs[q].seq > 0})

Spawn(rec) == procs' = (NextPid :> rec) @@ procs

Step(p, rec) == procs' = [procs EXCEPT ![p] = rec]

(* workflow-checkpoint main, lines 77-106 *)

\* json.load, create_checkpoint, the name of the session directory from
\* datetime.now(), mkdir
CpStart(inp) ==
    /\ NextPid <= MaxProcs
    /\ JsonLoad(inp) = "ok" /\ HasGet(inp)
    /\ \E experts \in Orderings(CheckpointScan(CheckpointStart, transcript).experts) :
         LET cp == [session_id |-> GetStr(inp.session_id, "")] @@
                   create_checkpoint(GetStr(inp.transcript_path, ""),
                                     GetStr(inp.trigger, "manual"),
                                     transcript, experts)
             d == SessionDirName(now)
         IN  IF logRootOk
             THEN /\ Spawn([NewProc("workflow-checkpoint") EXCEPT
                               !.pc = "named", !.dir = d, !.data = cp])
                  /\ sessions' = PutDir(d, DirAt(d))
             ELSE /\ Spawn([NewProc("workflow-checkpoint") EXCEPT !.pc = "done"])
                  /\ UNCHANGED sessions
    /\ UNCHANGED <<callVars, perm, logRootOk, logs, transcript, probes, now>>

\* the name of the checkpoint file from a second datetime.now(), open(.., 'w')
\* and json.dump
CpWrite ==
    \E p \in Pids("workflow-checkpoint", "named") :
        LET me == procs[p]
            name == CheckpointName(now)
        IN  /\ sessions' = [sessions EXCEPT ![me.dir].checkpoints = (name :> me.data) @@ @]
            /\ Step(p, [me EXCEPT !.pc = "written", !.file = name,
                                  !.seq = WritesDone + 1])
            /\ UNCHANGED <<callVars, perm, logRootOk, logs, transcript, probes, now>>

\* latest.exists()
CpExists ==
    \E p \in Pids("workflow-checkpoint", "written") :
        LET me == procs[p]
            dir == sessions[me.dir]
            exists == dir.latest # None /\ dir.latest[1] \in DOMAIN dir.checkpoints
        IN  /\ Step(p, [me EXCEPT !.pc = IF exists THEN "unlinking" ELSE "linking"])
            /\ UNCHANGED <<callVars, perm, logRootOk, logs, sessions, transcript,
                           probes, now>>

\* latest.unlink(): FileNotFoundError when another process removed the link,
\* which the bare except swallows, ending main
CpUnlink ==
    \E p \in Pids("workflow-checkpoint", "unlinking") :
        LET me == procs[p]
        IN  IF sessions[me.dir].latest # None
            THEN /\ sessions' = [sessions EXCEPT ![me.dir].latest = None]
                 /\ Step(p, [me EXCEPT !.pc = "linking"])
                 /\ UNCHANGED <<callVars, perm, logRootOk, logs, transcript, probes, now>>
            ELSE /\ Step(p, [me EXCEPT !.pc = "done"])
                 /\ UNCHANGED <<callVars, perm, logRootOk, logs, sessions, transcript,
                                probes, now>>

\* latest.symlink_to(checkpoint_file.name), then the print; FileExistsError
\* when another process made the link, swallowed as well
CpLink ==
    \E p \in Pids("workflow-checkpoint", "linking") :
        LET me == procs[p]
        IN  IF sessions[me.dir].latest = None
            THEN /\ sessions' = [sessions EXCEPT ![me.dir].latest = Some(me.file)]
                 /\ Step(p, [me EXCEPT !.pc = "done",
                                       !.printed = <<TextLine(me.file)>>])
                 /\ UNCHANGED <<callVars, perm, logRootOk, logs, transcript, probes, now>>
            ELSE /\ Step(p, [me EXCEPT !.pc = "done"])
                 /\ UNCHANGED <<callVars, perm, logRootOk, logs, sessions, transcript,
                                probes, now>>

(* task-logger main, log_task and get_log_directory *)

\* the fallback of get_log_directory: home when it can be created, else cwd
FallbackDir == IF MakedirsOk(HomeLogs) THEN HomeLogs ELSE Cwd

\* json.load and the gets; get_log_directory up to the write of .test_write
TlStart(e, inp) ==
    /\ NextPid <= MaxProcs
    /\ JsonLoad(inp) = "ok" /\ HasGet(inp)
    /\ LET d == PrimaryDir(e)
           new == [NewProc("task-logger") EXCEPT !.data = TaskEntry(inp, e)]
       IN  IF MakedirsOk(d) /\ WriteOk(d)
           THEN /\ probes' = probes \cup {d}
                /\ Spawn([new EXCEPT !.pc = "probed", !.dir = d])
           ELSE /\ Spawn([new EXCEPT !.pc = "resolved", !.dir = FallbackDir])
                /\ UNCHANGED probes
    /\ UNCHANGED <<callVars, perm, logRootOk, logs, sessions, transcript, now>>

\* os.remove(test_file): FileNotFoundError, an OSError, when another process
\* removed the file; get_log_directory then takes its fallback branch
TlRemove ==
    \E p \in Pids("task-logger", "probed") :
        LET me == procs[p]
        IN  /\ IF me.dir \in probes
               THEN /\ probes' = probes \ {me.dir}
                    /\ Step(p, [me EXCEPT !.pc = "resolved"])
               ELSE /\ Step(p, [me EXCEPT !.pc = "resolved", !.dir = FallbackDir])
                    /\ UNCHANGED probes
            /\ UNCHANGED <<callVars, perm, logRootOk, logs, sessions, transcript, now>>

\* the entry gets its timestamp, the daily file is opened in append mode
\* and the line is written; main prints its response
TlAppend ==
    \E p \in Pids("task-logger", "resolved") :
        LET me == procs[p]
            entry == [me.data EXCEPT !.timestamp = now]
            said == <<Response("Task logged for orchestration tracking", NoContext)>>
        IN  /\ IF WriteOk(me.dir)
               THEN /\ logs' = AppendLog(me.dir, "tasks", entry)
                    /\ Step(p, [me EXCEPT !.pc = "done", !.data = entry,
                                          !.seq = WritesDone + 1,
                                          !.line = Len(logs[me.dir].tasks) + 1,
                                          !.printed = said])
               ELSE /\ Step(p, [me EXCEPT !.pc = "done", !.printed = said])
                    /\ UNCHANGED logs
            /\ UNCHANGED <<callVars, perm, logRootOk, sessions, transcript, probes, now>>

(* result-aggregator main and aggregate_results *)

\* json.load and the gets; os.makedirs of the fixed directory; the entry
AgStart(inp) ==
    /\ NextPid <= MaxProcs
    /\ JsonLoad(inp) = "ok" /\ HasGet(inp)
    /\ LET new == [NewProc("result-aggregator") EXCEPT !.data = ResultEntry(inp)]
       IN  IF AggregateRaises
           THEN Spawn([new EXCEPT !.pc = "done",
                          !.printed = <<Response("Proceeding normally", NoContext)>>])
           ELSE Spawn([new EXCEPT !.pc = "resolved", !.dir = TmpDir])
    /\ UNCHANGED <<callVars, perm, logRootOk, logs, sessions, transcript, probes, now>>

\* the daily file is opened in append mode and the line is written; main
\* prints its response
AgAppend ==
    \E p \in Pids("result-aggregator", "resolved") :
        LET me == procs[p]
            said == <<Response("Subagent results aggregated", me.data.subagent)>>
        IN  /\ IF WriteOk(me.dir)
               THEN /\ logs' = AppendLog(me.dir, "subagent_results", me.data)
                    /\ Step(p, [me EXCEPT !.pc = "done",
                                          !.seq = WritesDone + 1,
                                          !.line = Len(logs[me.dir].subagent_results) + 1,
                                          !.printed = said])
               ELSE /\ Step(p, [me EXCEPT !.pc = "done", !.printed = said])
                    /\ UNCHANGED logs
            /\ UNCHANGED <<callVars, perm, logRootOk, sessions, transcript, probes, now>>

----------------------------------------------------------------------------
(* The environment of the hooks: the runtime and the rest of the system *)

Env(log, dir) == [WARPIO_LOG |-> log, WORKFLOW_DIR |-> dir, CLAUDE_SESSION_ID |-> Unset]

\* no invocation has been observed
NoCall ==
    /\ hook = "none"
    /\ input = BlankEnvelope
    /\ env = Env(Unset, Unset)
    /\ consumed = FALSE
    /\ read = <<>>
    /\ changed = FALSE
    /\ at = 0
    /\ stdout = <<>>
    /\ stderr = <<>>
    /\ exitStatus = -1
    /\ state = "idle"

\* the runtime has taken the outcome of the last invocation
ForgetCall ==
    /\ hook' = "none"
    /\ input' = BlankEnvelope
    /\ env' = Env(Unset, Unset)
    /\ consumed' = FALSE
    /\ read' = <<>>
    /\ changed' = FALSE
    /\ at' = 0
    /\ stdout' = <<>>
    /\ stderr' = <<>>
    /\ exitStatus' = -1
    /\ state' = "idle"

\* somebody changes the permission of one log directory (the current
\* directory exists; for the override "ro" acts as "none" does, its one
\* user falling back on either).  The outcome of the last invocation has
\* been taken by the runtime: what is observed of an invocation is observed
\* under the permissions it ran with.
ChangePermission ==
    \E d \in LogDirs, m \in Perms :
        /\ perm[d] # m
        /\ d = Cwd => m # "none"
        /\ d = OverrideDir => m # "ro"
        /\ perm' = [perm EXCEPT ![d] = m]
        /\ ForgetCall
        /\ UNCHANGED <<logRootOk, logs, sessions, transcript, now, probes, procs>>

\* somebody changes the permission of the session log root
ChangeLogRoot ==
    /\ logRootOk' = ~logRootOk
    /\ UNCHANGED <<callVars, perm, logs, sessions, transcript, now, probes, procs>>

\* the runtime appends a line to the transcript
RuntimeAppend(line) ==
    /\ transcript' = Append(transcript, line)
    /\ UNCHANGED <<callVars, perm, logRootOk, logs, sessions, now, probes, procs>>

Tick ==
    /\ now < MaxClock
    /\ now' = now + 1
    /\ UNCHANGED <<callVars, perm, logRootOk, logs, sessions, transcript, probes, procs>>

Init ==
    /\ NoCall
    /\ perm = [d \in LogDirs |-> "rw"]
    /\ logRootOk = TRUE
    /\ logs = [d \in LogDirs |-> [k \in LogKinds |-> <<>>]]
    /\ sessions = <<>>
    /\ transcript = <<>>
    /\ probes = {}
    /\ procs = <<>>
    /\ now = 0

----------------------------------------------------------------------------
(* Specification of the dispatch hooks (PreToolUse, PostToolUse,           *)
(* SubagentStop aggregator) over the log directories                      *)

DispatchInputs ==
    {EmptyInput, TextInput, NonObjectInput, BlankEnvelope,
     [BlankEnvelope EXCEPT !.tool_name = "Bash", !.tool_input = Payload(TRUE, 250)],
     [BlankEnvelope EXCEPT !.subagent_type = "data-expert",
                           !.result = Payload(TRUE, 600)],
     [BlankEnvelope EXCEPT !.subagent_name = "data-expert",
                           !.result = Payload(FALSE, 2)]}

DispatchEnvs == {Env(Unset, Unset), Env(Unset, OverrideDir)}

DispatchTaskLogger == \E e \in DispatchEnvs, inp \in DispatchInputs : TaskLoggerMain(e, inp)

DispatchAggregator == \E e \in DispatchEnvs, inp \in DispatchInputs : ResultAggregatorMain(e, inp)

DispatchTracker == \E e \in DispatchEnvs, inp \in DispatchInputs : PerformanceTrackerMain(e, inp)

DispatchNext ==
    \/ DispatchTaskLogger
    \/ DispatchAggregator
    \/ DispatchTracker
    \/ ChangePermission

SpecDispatch == Init /\ [][DispatchNext]_vars

----------------------------------------------------------------------------
(* Specification of the session hooks (PreCompact, Stop, SubagentStop      *)
(* logger) over one transcript and the session log root                    *)

McpTool(server) == <<"mcp", Sep>> \o server \o <<Sep, "read">>

\* the events of the session, in the order the runtime records them
SessionScript ==
    <<SubagentLine("data-expert"),
      ToolFileLine(McpTool(<<"hdf5">>), "a.nc"),
      CorruptLine({})>>

GoodEnvelope ==
    [BlankEnvelope EXCEPT !.session_id = "s1", !.transcript_path = TranscriptPath,
                          !.trigger = "auto"]

MissingEnvelope == [GoodEnvelope EXCEPT !.transcript_path = "missing.jsonl"]

\* the invocations the runtime makes: <<WARPIO_LOG, envelope>>
SessionCalls ==
    {<<Unset, GoodEnvelope>>, <<Unset, NonObjectInput>>, <<"", GoodEnvelope>>,
     <<"true", GoodEnvelope>>, <<"true", MissingEnvelope>>,
     <<"true", NonObjectInput>>, <<"true", EmptyInput>>,
     <<"false", GoodEnvelope>>}

SessionAppend ==
    /\ Len(transcript) < Len(SessionScript)
    /\ RuntimeAppend(SessionScript[Len(transcript) + 1])

SessionCheckpoint == \E c \in SessionCalls : WorkflowCheckpointMain(Env(c[1], Unset), c[2])

SessionSummary == \E c \in SessionCalls : SessionSummaryMain(Env(c[1], Unset), c[2])

SessionExpertLogger == \E c \in SessionCalls : ExpertResultLoggerMain(Env(c[1], Unset), c[2])

SessionNext ==
    \/ SessionAppend
    \/ SessionCheckpoint
    \/ SessionSummary
    \/ SessionExpertLogger
    \/ ChangeLogRoot

SpecSession == Init /\ [][SessionNext]_vars

----------------------------------------------------------------------------
(* Specification of the classification of tool calls by the Stop hook *)

TableServers == DataServers \cup AnalysisServers \cup HpcServers \cup ResearchServers

ClassifyTools ==
    {McpTool(server) : server \in TableServers}
    \cup {McpTool(<<"hdf5", "tools">>), McpTool(<<"my_", "hdf5">>),
          McpTool(<<"unknown">>), <<"mcp", Sep, "hdf5">>, <<"Bash">>}

ClassifyLines ==
    {ToolLine(tool) : tool \in ClassifyTools}
    \cup {CorruptLine({"tool_name", "mcp__"})}

LoggingEnv == Env("true", Unset)

ClassifyAppend ==
    /\ Len(transcript) < MaxToolLines
    /\ \E line \in ClassifyLines : RuntimeAppend(line)

ClassifySummary == SessionSummaryMain(LoggingEnv, GoodEnvelope)

ClassifyNext ==
    \/ ClassifyAppend
    \/ ClassifySummary

SpecClassify == Init /\ [][ClassifyNext]_vars

----------------------------------------------------------------------------
(* Specifications of the file lists: the recent files of a checkpoint and  *)
(* the files of the session report.  The paths are interchangeable for the *)
(* hooks, so a transcript takes them in the order of Paths.                *)

Paths ==
    <<"a.nc", "b.nc", "c.nc", "d.nc", "e.nc", "f.nc", "g.nc", "h.nc",
      "i.nc", "j.nc", "k.nc", "l.nc", "m.nc", "n.nc">>

\* the paths the lines of a transcript reference
PathsIn(lines) == {FilePathOf(lines[i]) : i \in 1..Len(lines)} \ {""}

\* the next path of Paths, not referenced yet
NextPath(lines) == Paths[Cardinality(PathsIn(lines)) + 1]

\* the runtime appends a line that references a new path, or the first path
\* once more, or an empty path, or a line cut short inside its file_path
RecentAppend ==
    /\ Len(transcript) < MaxRefLines
    /\ Cardinality(PathsIn(transcript)) < Len(Paths)
    /\ \E line \in {FileLine(NextPath(transcript)), FileLine(Paths[1]),
                    FileLine(""), CorruptLine({"file_path"})} :
          RuntimeAppend(line)

RecentCheckpoint == WorkflowCheckpointMain(LoggingEnv, GoodEnvelope)

RecentNext ==
    \/ RecentAppend
    \/ RecentCheckpoint

SpecRecent == Init /\ [][RecentNext]_vars

\* a line referencing the next path of Paths, or the last line once more
\* (a line is not repeated twice in a row)
ReportAppend ==
    /\ Len(transcript) < MaxReportLines
    /\ Cardinality(PathsIn(transcript)) < Len(Paths)
    /\ \E line \in {FileLine(NextPath(transcript))}
                   \cup {transcript[i] : i \in {k \in {Len(transcript)} :
                             k = 1 \/ (k > 1 /\ transcript[k] # transcript[k - 1])}} :
          RuntimeAppend(line)

ReportSummary == SessionSummaryMain(LoggingEnv, GoodEnvelope)

ReportNext ==
    \/ ReportAppend
    \/ ReportSummary

SpecReport == Init /\ [][ReportNext]_vars

----------------------------------------------------------------------------
(* Specification of the forward scan of the Stop hook over transcripts of  *)
(* subagent, tool, file and undecodable lines                              *)

ConvertTool == <<"mcp", Sep, "hdf5", Sep, "convert">>

ParseLines ==
    {SubagentLine("data-expert"), SubagentLine("analysis-expert"),
     NestedSubagentLine, ToolFileLine(ConvertTool, "a.nc"), FileLine("b.nc"),
     CorruptLine({}), CorruptLine({"subagent_type", "file_path"})}

ParseAppend ==
    /\ Len(transcript) < MaxParseLines
    /\ \E line \in ParseLines : RuntimeAppend(line)

ParseSummary == SessionSummaryMain(LoggingEnv, GoodEnvelope)

ParseNext ==
    \/ ParseAppend
    \/ ParseSummary

SpecParse == Init /\ [][ParseNext]_vars

----------------------------------------------------------------------------
(* Specification of one session over the wall clock: the runtime records   *)
(* the events of the session and raises pre-compaction, subagent-stop and  *)
(* session-stop events at any second                                       *)

ClockAppend ==
    /\ Len(transcript) < Len(SessionScript)
    /\ RuntimeAppend(SessionScript[Len(transcript) + 1])

ClockCheckpoint == WorkflowCheckpointMain(LoggingEnv, GoodEnvelope)

ClockSummary == SessionSummaryMain(LoggingEnv, GoodEnvelope)

ClockExpertLogger == ExpertResultLoggerMain(LoggingEnv, GoodEnvelope)

ClockNext ==
    \/ Tick
    \/ ClockAppend
    \/ ClockCheckpoint
    \/ ClockSummary
    \/ ClockExpertLogger

SpecClock == Init /\ [][ClockNext]_vars

----------------------------------------------------------------------------
(* Specification of pre-compaction hooks that run at the same time: each   *)
(* event starts a process whose steps interleave with the others' and with *)
(* the clock                                                               *)

LatestStart == CpStart(GoodEnvelope)

LatestNext ==
    \/ Tick
    \/ LatestStart
    \/ CpWrite
    \/ CpExists
    \/ CpUnlink
    \/ CpLink

SpecLatest == Init /\ [][LatestNext]_vars

----------------------------------------------------------------------------
(* Specification of task loggers and result aggregators that run at the    *)
(* same time over writable log directories                                 *)

AppendTaskInput ==
    [BlankEnvelope EXCEPT !.tool_name = "Bash", !.tool_input = Payload(TRUE, 250)]

AppendResultInput ==
    [BlankEnvelope EXCEPT !.subagent_name = "data-expert", !.result = Payload(TRUE, 600)]

AppendTaskStart == TlStart(Env(Unset, Unset), AppendTaskInput)

AppendResultStart == AgStart(AppendResultInput)

AppendNext ==
    \/ Tick
    \/ AppendTaskStart
    \/ TlRemove
    \/ TlAppend
    \/ AppendResultStart
    \/ AgAppend

SpecAppend == Init /\ [][AppendNext]_vars

----------------------------------------------------------------------------
(* Specification of the two scans of the transcript, backward by the       *)
(* PreCompact hook and forward by the Stop hook, over transcripts of       *)
(* subagent, tool, file and undecodable lines, the transcript being there  *)
(* or not when the hook runs                                               *)

ResumeAppend ==
    /\ Len(transcript) < MaxParseLines
    /\ \E line \in ParseLines : RuntimeAppend(line)

ResumeCheckpoint ==
    \E inp \in {GoodEnvelope, MissingEnvelope} : WorkflowCheckpointMain(LoggingEnv, inp)

ResumeSummary == SessionSummaryMain(LoggingEnv, GoodEnvelope)

ResumeNext ==
    \/ ResumeAppend
    \/ ResumeCheckpoint
    \/ ResumeSummary

SpecResume == Init /\ [][ResumeNext]_vars

----------------------------------------------------------------------------
(* Specification of the scan of the SubagentStop logger over transcripts   *)
(* of subagent, tool and undecodable lines, the undecodable ones cut short *)
(* anywhere: before any key, inside a subagent_type, inside an MCP call    *)

ExpertLines ==
    {SubagentLine("data-expert"), ToolLine(McpTool(<<"hdf5">>)), ToolLine(ConvertTool),
     ToolLine(<<"Bash">>), CorruptLine({}), CorruptLine({"subagent_type"}),
     CorruptLine({"tool_name", "mcp__"})}

ExpertAppend ==
    /\ Len(transcript) < MaxParseLines
    /\ \E line \in ExpertLines : RuntimeAppend(line)

ExpertLogger == ExpertResultLoggerMain(LoggingEnv, GoodEnvelope)

ExpertNext ==
    \/ ExpertAppend
    \/ ExpertLogger

SpecExpert == Init /\ [][ExpertNext]_vars

----------------------------------------------------------------------------
(* Properties *)

SessionHooks == {"workflow-checkpoint", "session-summary-logger", "expert-result-logger"}

\* the session directory of the last invocation
ThisDir == SessionDirName(at)

\* C1: whatever is on stdin (an envelope, nothing, text that is not JSON,
\* JSON that is not an object) and whatever the log directories allow, an
\* invocation of the task logger or of the result aggregator ends in state
\* "responded" with exactly one response, an approval, and status 0.
C1_LoggerAndAggregatorApprove ==
    hook \in {"task-logger", "result-aggregator"} =>
        /\ state = "responded"
        /\ exitStatus = 0
        /\ Len(stdout) = 1
        /\ IsApproval(stdout[1])

\* the aggregator got an envelope, could not create its directory, and approved
C1_Witness ==
    /\ hook = "result-aggregator"
    /\ input.kind = "object"
    /\ stdout = <<Response("Proceeding normally", NoContext)>>
    /\ state = "responded"
    /\ exitStatus = 0

\* C2: every invocation of the performance tracker ends in state
\* "responded" with one approval response and status 0.
C2_TrackerApproves ==
    hook = "performance-tracker" =>
        /\ state = "responded"
        /\ exitStatus = 0
        /\ Len(stdout) = 1
        /\ IsApproval(stdout[1])

\* C3 as claimed: every invocation of the checkpoint, summary and
\* expert-result hooks writes exactly one response object with decision
\* approve and ends with status 0.
C3_SessionHooksRespond ==
    hook \in SessionHooks =>
        /\ exitStatus = 0
        /\ Len(stdout) = 1
        /\ IsApproval(stdout[1])

\* C3 as amended: every invocation of the checkpoint, summary and
\* expert-result hooks ends with status 0 on every path and writes no
\* response object; the only output is the one plain line the checkpoint
\* hook prints after it wrote a checkpoint.
C3_SessionHooksExitSilently ==
    hook \in SessionHooks =>
        /\ exitStatus = 0
        /\ state = "exited"
        /\ Len(stdout) <= 1
        /\ \A i \in 1..Len(stdout) : stdout[i].kind = "text"
        /\ stdout # <<>> =>
              /\ hook = "workflow-checkpoint"
              /\ ThisDir \in DOMAIN sessions
              /\ stdout[1].hookSpecificOutput \in DOMAIN sessions[ThisDir].checkpoints

\* the checkpoint hook failed to decode its envelope and left with status 0
C3_Witness ==
    /\ hook = "workflow-checkpoint"
    /\ env.WARPIO_LOG = "true"
    /\ input.kind = "nonobject"
    /\ stdout = <<>>
    /\ exitStatus = 0

\* C4: with WARPIO_LOG absent, an invocation of the checkpoint hook or of
\* the summary hook leaves the filesystem as it found it, does not read its
\* envelope, writes nothing and exits with status 0.
C4_DisabledLeavesNoTrace ==
    (hook \in {"workflow-checkpoint", "session-summary-logger"}
     /\ env.WARPIO_LOG = Unset)
    => /\ ~changed
       /\ ~consumed
       /\ read = <<>>
       /\ stdout = <<>>
       /\ exitStatus = 0

\* a disabled invocation ended over a filesystem that holds artifacts
C4_Witness ==
    /\ hook \in {"workflow-checkpoint", "session-summary-logger"}
    /\ env.WARPIO_LOG = Unset
    /\ input = GoodEnvelope
    /\ logRootOk
    /\ ~changed
    /\ ~consumed
    /\ exitStatus = 0
    /\ sessions # <<>>

\* C5: the checkpoint, summary and expert-result hooks write no artifact
\* unless WARPIO_LOG is "true".
C5_OnlyTrueEnables ==
    (hook \in SessionHooks /\ env.WARPIO_LOG # "true") => ~changed

\* the path of the last line that carries a non-empty tool_input.file_path
LastReference(lines) ==
    LET refs == {i \in 1..Len(lines) :
                    /\ lines[i].json = "object"
                    /\ lines[i].tool_input = "dict"
                    /\ lines[i].file_path \notin {Unset, ""}}
    IN  IF refs = {} THEN ""
        ELSE lines[CHOOSE i \in refs : \A j \in refs : j <= i].file_path

\* C6: the recent_files of the checkpoint built from a transcript has at
\* most 5 entries, and it is non-empty exactly when some line carries a
\* non-empty tool_input.file_path, its first entry then being the path of
\* the last such line.
C6_RecentFilesBoundedNewestFirst ==
    (hook = "workflow-checkpoint" /\ stdout # <<>>) =>
        LET cp == sessions[ThisDir].checkpoints[CheckpointName(at)]
        IN  /\ Len(cp.recent_files) <= 5
            /\ cp.recent_files = <<>> <=> LastReference(read) = ""
            /\ cp.recent_files # <<>> => cp.recent_files[1] = LastReference(read)

\* a checkpoint of a transcript that references more than 5 files
C6_Witness ==
    /\ hook = "workflow-checkpoint"
    /\ stdout # <<>>
    /\ Cardinality(PathsIn(read)) > 5
    /\ LET cp == sessions[ThisDir].checkpoints[CheckpointName(at)]
       IN  /\ Len(cp.recent_files) = 5
           /\ cp.recent_files[1] = LastReference(read)

\* C7: the entries of a checkpoint's recent_files are pairwise distinct.
C7_RecentFilesDistinct ==
    \A d \in DOMAIN sessions : \A n \in DOMAIN sessions[d].checkpoints :
        LET files == sessions[d].checkpoints[n].recent_files
        IN  \A i, j \in 1..Len(files) : i # j => files[i] # files[j]

\* the invocation of the summary hook wrote the summary and the report
SummaryWritten ==
    /\ hook = "session-summary-logger"
    /\ changed
    /\ Readable(GetStr(input.transcript_path, ""))

\* C8: for n processed files the report lists min(n, 10) of them, one per
\* line, followed by exactly one "... and N more" line with N = n - 10 when
\* n > 10, and by no such line when n <= 10.
C8_ReportListsTenThenCounts ==
    SummaryWritten =>
        LET n == Cardinality(PathsIn(read))
            lines == sessions[ThisDir].report[1].lines
            listed == {i \in 1..Len(lines) : lines[i].kind = "file"}
            more == {i \in 1..Len(lines) : lines[i].kind = "more"}
        IN  /\ Cardinality(listed) = (IF n < 10 THEN n ELSE 10)
            /\ \A i \in listed : lines[i].file \in PathsIn(read)
            /\ \A i, j \in listed : i # j => lines[i].file # lines[j].file
            /\ listed \cup more = 1..Len(lines)
            /\ n <= 10 => more = {}
            /\ n > 10 => /\ more = {Len(lines)}
                         /\ lines[Len(lines)].more = n - 10

\* a report of 12 files: 10 listed, and "... and 2 more"
C8_Witness ==
    /\ SummaryWritten
    /\ Cardinality(PathsIn(read)) = 12
    /\ LET lines == sessions[ThisDir].report[1].lines
       IN  /\ Len(lines) = 11
           /\ lines[11] = MoreEntry(2)
           /\ \A i \in 1..10 : lines[i].kind = "file"

\* the classification table as stated: expert |-> words
ClaimTable ==
    [x \in ExpertNames |->
        CASE x = "data-expert" -> {"hdf5", "adios", "parquet"}
          [] x = "analysis-expert" -> {"plot", "pandas"}
          [] x = "hpc-expert" -> {"darshan", "node_hardware"}
          [] x = "research-expert" -> {"arxiv", "context7"}]

\* the lines of a transcript that are calls of an mcp__ tool
McpCalls(lines) ==
    {i \in 1..Len(lines) :
        lines[i].json = "object" /\ StartsWithMcp(lines[i].tool_name)}

\* the piece of an mcp__ tool name between "mcp__" and the next "__"
ServerPiece(tool) == Split(tool)[2]

\* C9 as claimed: a tool whose name starts with mcp__ and whose prefix
\* contains a word of the table anywhere is placed in the bucket of that
\* word's expert, and in no other bucket.
C9_ClassifiedBySubstring ==
    SummaryWritten =>
        LET buckets == sessions[ThisDir].summary[1].mcps_by_expert
        IN  \A i \in McpCalls(read) : \A x \in ExpertNames :
              LET tool == read[i].tool_name
                  piece == ServerPiece(tool)
              IN  (\E k \in 1..Len(piece) : piece[k] \in ClaimTable[x])
                  => /\ tool \in Range(buckets[x])
                     /\ \A y \in ExpertNames \ {x} : tool \notin Range(buckets[y])

\* C9 as amended: classification is by equality: a tool whose name starts
\* with mcp__ is placed in the bucket of an expert exactly when the piece
\* of its name between "mcp__" and the next "__" equals a word of that
\* expert's table entry; a piece that only contains such a word
\* (hdf5tools, my_hdf5) puts the tool in no bucket; each tool lands in at
\* most one bucket and the buckets hold nothing else.
C9_ClassifiedByEquality ==
    SummaryWritten =>
        LET buckets == sessions[ThisDir].summary[1].mcps_by_expert
            tools == {read[i].tool_name : i \in McpCalls(read)}
        IN  /\ \A tool \in tools : \A x \in ExpertNames :
                  tool \in Range(buckets[x])
                  <=> \E word \in ClaimTable[x] : ServerPiece(tool) = <<word>>
            /\ \A x \in ExpertNames : Range(buckets[x]) \subseteq tools
            /\ \A x, y \in ExpertNames :
                  x # y => Range(buckets[x]) \cap Range(buckets[y]) = {}

\* a summary of mcp__hdf5__read and mcp__hdf5tools__read: the first is in
\* the data-expert bucket, the second in none
C9_Witness ==
    /\ SummaryWritten
    /\ read = <<ToolLine(McpTool(<<"hdf5">>)), ToolLine(McpTool(<<"hdf5", "tools">>))>>
    /\ LET sm == sessions[ThisDir].summary[1]
       IN  /\ sm.mcps_by_expert["data-expert"] = <<McpTool(<<"hdf5">>)>>
           /\ \A x \in ExpertNames \ {"data-expert"} : sm.mcps_by_expert[x] = <<>>

\* C10: total_mcp_calls is the number of decodable lines whose tool_name
\* starts with mcp__, a repeated call counting each time; a call whose
\* prefix is not in the table is counted and is in no bucket.
C10_TotalCountsEveryCall ==
    SummaryWritten =>
        LET sm == sessions[ThisDir].summary[1]
        IN  /\ sm.total_mcp_calls = Cardinality(McpCalls(read))
            /\ \A i \in McpCalls(read) :
                  ServerPiece(read[i].tool_name) \notin TableServers
                  => \A x \in ExpertNames :
                        read[i].tool_name \notin Range(sm.mcps_by_expert[x])

\* a summary of the same unknown-prefix tool called twice: 2 calls, no bucket
C10_Witness ==
    /\ SummaryWritten
    /\ read = <<ToolLine(McpTool(<<"unknown">>)), ToolLine(McpTool(<<"unknown">>))>>
    /\ sessions[ThisDir].summary[1].total_mcp_calls = 2
    /\ \A x \in ExpertNames : sessions[ThisDir].summary[1].mcps_by_expert[x] = <<>>

\* json.loads(line) returns
Decodes(line) == line.json # "corrupt"

\* C11: lines that do not decode change nothing: the experts_used and the
\* files_processed of the summary of a transcript are those of the scan of
\* its decodable lines alone, wherever the other lines stand.
C11_CorruptLinesIgnored ==
    SummaryWritten =>
        LET sm == sessions[ThisDir].summary[1]
            alone == SummaryScan(SummaryStart, SelectSeq(read, Decodes))
        IN  /\ Range(sm.experts_used) = alone.experts
            /\ Range(sm.files_processed) = alone.files

\* a summary of a transcript whose first line does not decode, the expert
\* and the file of the lines after it being recorded
C11_Witness ==
    /\ SummaryWritten
    /\ Len(read) = 3
    /\ ~Decodes(read[1])
    /\ read[2] = SubagentLine("data-expert")
    /\ read[3] = FileLine("b.nc")
    /\ Range(sessions[ThisDir].summary[1].experts_used) = {"data-expert"}
    /\ Range(sessions[ThisDir].summary[1].files_processed) = {"b.nc"}

\* the expert identifiers a transcript carries: the non-empty subagent_type
\* values of its decodable lines
ExpertIdsIn(lines) ==
    {lines[i].subagent_type :
        i \in {k \in 1..Len(lines) : /\ lines[k].json = "object"
                                    /\ lines[k].subagent_type \notin {Unset, ""}}}

\* the transcript of the end-to-end scenario
ScenarioTranscript ==
    <<SubagentLine("data-expert"), ToolFileLine(ConvertTool, "a.nc"), CorruptLine({})>>

\* C12: the orchestration_pattern of a summary is "multi-expert" exactly
\* when the transcript carries more than one distinct expert identifier,
\* and "single" otherwise; the scenario transcript gives one expert, one
\* call in the data-expert bucket, one file and the pattern "single".
C12_PatternByDistinctExperts ==
    SummaryWritten =>
        LET sm == sessions[ThisDir].summary[1]
        IN  /\ sm.orchestration_pattern =
                  (IF Cardinality(ExpertIdsIn(read)) > 1 THEN "multi-expert" ELSE "single")
            /\ read = ScenarioTranscript =>
                  /\ sm.experts_used = <<"data-expert">>
                  /\ sm.total_mcp_calls = 1
                  /\ sm.mcps_by_expert =
                        [x \in ExpertNames |->
                            IF x = "data-expert" THEN <<ConvertTool>> ELSE <<>>]
                  /\ sm.files_processed = <<"a.nc">>

\* the envelope of the last invocation was decoded
CallDecoded == JsonLoad(input) = "ok" /\ HasGet(input)

\* the last invocation appended its record to the daily file of a kind in d
RecordIn(d, kind) ==
    /\ changed
    /\ logs[d][kind] # <<>>
    /\ LET last == logs[d][kind][Len(logs[d][kind])]
       IN  /\ last.timestamp = at
           /\ kind = "tasks" => last.tool = GetStr(input.tool_name, "")
           /\ kind = "subagent_results" =>
                 last.subagent \in {GetStr(input.subagent_name, ""),
                                    GetStr(input.subagent_type, "")}

\* the daily log kind of the last invocation's hook
KindOf(h) == IF h = "task-logger" THEN "tasks" ELSE "subagent_results"

\* C13: when the primary log directory cannot be written and the home
\* fallback can, the task logger and the result aggregator append their
\* record to the daily file under the home fallback.
C13_FallbackPersists ==
    (/\ hook \in {"task-logger", "result-aggregator"}
     /\ CallDecoded
     /\ perm[PrimaryDir(env)] # "rw"
     /\ perm[HomeLogs] = "rw")
    => RecordIn(HomeLogs, KindOf(hook))

\* the first directory, in the order given, that takes the probe
FirstWritable(dirs) ==
    LET ok == {i \in 1..Len(dirs) : perm[dirs[i]] = "rw"}
    IN  IF ok = {} THEN "<none>"
        ELSE dirs[CHOOSE i \in ok : \A j \in ok : i <= j]

\* C14 as claimed: the task logger's record goes to the first of the
\* override (when set), the shared temporary directory, the home fallback
\* and the current directory that passes the write probe, and nowhere when
\* none does.
C14_FirstProbedOfFour ==
    (hook = "task-logger" /\ CallDecoded) =>
        LET dirs == (IF env.WORKFLOW_DIR # Unset THEN <<env.WORKFLOW_DIR>> ELSE <<>>)
                    \o <<TmpDir, HomeLogs, Cwd>>
        IN  IF FirstWritable(dirs) = "<none>" THEN ~changed
            ELSE RecordIn(FirstWritable(dirs), "tasks")

\* C14 as amended: there are three candidates.  The primary one is the
\* override when it is set and the shared temporary directory otherwise
\* (never both); it is taken when it passes the write probe.  Else the home
\* fallback is taken as soon as it can be created, else the current
\* directory, neither being probed: the record is appended there when the
\* directory takes the write and is lost otherwise.
C14_PrimaryProbedThenUnprobed ==
    (hook = "task-logger" /\ CallDecoded) =>
        LET primary == IF env.WORKFLOW_DIR # Unset THEN env.WORKFLOW_DIR ELSE TmpDir
            target == IF perm[primary] = "rw" THEN primary
                      ELSE IF perm[HomeLogs] # "none" THEN HomeLogs
                      ELSE Cwd
        IN  IF perm[target] = "rw" THEN RecordIn(target, "tasks")
            ELSE ~changed /\ stderr # <<>>

\* the override is set and cannot be written, the shared temporary
\* directory can: the record is under the home fallback
C14_Witness ==
    /\ hook = "task-logger"
    /\ CallDecoded
    /\ env.WORKFLOW_DIR = OverrideDir
    /\ perm[OverrideDir] # "rw"
    /\ perm[TmpDir] = "rw"
    /\ RecordIn(HomeLogs, "tasks")
    /\ logs[TmpDir].tasks = <<>>

\* C18: when the task logger could not persist its record, the reason of
\* its response does not say that the task was logged.
C18_FailureInResponse ==
    (hook = "task-logger" /\ CallDecoded /\ ~changed) =>
        \A i \in 1..Len(stdout) :
            stdout[i].reason # "Task logged for orchestration tracking"

\* C19: for an envelope whose subagent_type is X the result aggregator
\* appends a record whose subagent is X and whose preview is the first 500
\* characters of the rendering of the result, and its response names X.
C19_AggregatorNamesSubagentType ==
    (hook = "result-aggregator" /\ CallDecoded /\ input.subagent_type # Unset
     /\ changed)
    => /\ stdout[1].hookSpecificOutput = input.subagent_type
       /\ LET file == logs[TmpDir].subagent_results
          IN  /\ file # <<>>
              /\ file[Len(file)].subagent = input.subagent_type
              /\ file[Len(file)].result_preview =
                    (IF input.result.truthy THEN Min(input.result.strlen, 500) ELSE 0)

\* C15: every artifact of the session (checkpoints, latest pointer, expert
\* log, summary, report) is in one and the same session directory, whenever
\* the events of the session occur.
C15_OneDirectoryPerSession ==
    Cardinality(DOMAIN sessions) <= 1

\* the checkpoint files on disk: <<directory, file name>>
CheckpointFiles(ss) ==
    UNION {{<<d, n>> : n \in DOMAIN ss[d].checkpoints} : d \in DOMAIN ss}

Targeting(d) ==
    {q \in DOMAIN procs : procs[q].hook = "workflow-checkpoint" /\ procs[q].dir = d}

\* the checkpoint file of a directory that was written last
LastWritten(d) ==
    LET w == {q \in Targeting(d) : procs[q].seq > 0}
    IN  procs[CHOOSE q \in w : \A r \in w : procs[r].seq <= procs[q].seq].file

\* C17: once every pre-compaction process that targets a session directory
\* has ended, the latest pointer of the directory exists and references the
\* checkpoint file written last, however the processes interleaved.
C17_LatestIsMostRecent ==
    \A d \in DOMAIN sessions :
        (Targeting(d) # {} /\ \A q \in Targeting(d) : procs[q].pc = "done")
        => /\ sessions[d].latest # None
           /\ sessions[d].latest[1] = LastWritten(d)

\* the processes that appended a record to the daily file of a kind in d
Appenders(d, kind) ==
    {q \in DOMAIN procs : /\ procs[q].pc = "done"
                          /\ procs[q].line > 0
                          /\ procs[q].dir = d
                          /\ KindOf(procs[q].hook) = kind}

\* C20: in every daily log file, under every interleaving, each line is the
\* complete record of one process and each appended record stands where it
\* was written, unchanged; the record of a process that ended before
\* another one started stands before the other's.
C20_AppendsKeepLines ==
    \A d \in LogDirs : \A kind \in LogKinds :
        LET file == logs[d][kind]
            who == Appenders(d, kind)
        IN  /\ Len(file) = Cardinality(who)
            /\ \A q \in who : /\ procs[q].line <= Len(file)
                              /\ file[procs[q].line] = procs[q].data
            /\ \A q, r \in who : q # r => procs[q].line # procs[r].line
            /\ \A q, r \in who : q \in procs[r].after => procs[q].line < procs[r].line

\* two task loggers ran at the same time and both records are in the
\* primary daily file
C20_Witness ==
    /\ Cardinality(Appenders(TmpDir, "tasks")) = 2
    /\ \A q, r \in Appenders(TmpDir, "tasks") : q \notin procs[r].after
    /\ Len(logs[TmpDir].tasks) = 2

\* the summary hook passed its gate, decoded its envelope and could create
\* the session directory, and the transcript could not be opened
SummaryOfUnreadable ==
    /\ hook = "session-summary-logger"
    /\ LoggingEnabled(env)
    /\ Decoded(input)
    /\ changed
    /\ ~Readable(GetStr(input.transcript_path, ""))

\* C21: with logging enabled and a transcript that cannot be opened, the
\* session directory holds a complete, well-formed summary (no experts, no
\* files, total_mcp_calls 0, pattern "single", the session id of the
\* envelope) and the report made from it.
C21_UnreadableStillSummarised ==
    SummaryOfUnreadable =>
        /\ sessions[ThisDir].summary # None
        /\ LET sm == sessions[ThisDir].summary[1]
           IN  /\ sm.wellFormed
               /\ sm.experts_used = <<>>
               /\ sm.files_processed = <<>>
               /\ sm.total_mcp_calls = 0
               /\ sm.orchestration_pattern = "single"
               /\ sm.session_id = GetStr(input.session_id, "")
        /\ sessions[ThisDir].report # None

\* the checkpoint hook passed its gate and decoded its envelope
CheckpointCalled ==
    /\ hook = "workflow-checkpoint"
    /\ LoggingEnabled(env)
    /\ Decoded(input)

\* the positions of the instructions of a kind in a list of instructions
InstructionsOf(ri, kind) == {i \in 1..Len(ri) : ri[i].kind = kind}

\* C22: the checkpoint is written whether the transcript can be read or
\* not, and its resume_instructions has at most two entries: an instruction
\* naming the observed expert identifiers exactly when there is one, then
\* an instruction naming recent_files[0] exactly when recent_files is not
\* empty; it is empty when the transcript cannot be read.
C22_ResumeInstructions ==
    CheckpointCalled =>
        /\ ThisDir \in DOMAIN sessions
        /\ CheckpointName(at) \in DOMAIN sessions[ThisDir].checkpoints
        /\ LET cp == sessions[ThisDir].checkpoints[CheckpointName(at)]
               ri == cp.resume_instructions
               byExperts == InstructionsOf(ri, "experts")
               byFile == InstructionsOf(ri, "file")
           IN  /\ Len(ri) <= 2
               /\ byExperts \cup byFile = 1..Len(ri)
               /\ byExperts = (IF ExpertIdsIn(read) # {} THEN {1} ELSE {})
               /\ \A i \in byExperts : Range(ri[i].experts) = ExpertIdsIn(read)
               /\ byFile = (IF cp.recent_files # <<>> THEN {Len(ri)} ELSE {})
               /\ \A i \in byFile : ri[i].file = cp.recent_files[1]
               /\ ~Readable(GetStr(input.transcript_path, "")) => ri = <<>>

\* the invocation of the expert-result logger appended its record
ExpertLogged ==
    /\ hook = "expert-result-logger"
    /\ changed

\* the record the last invocation of the expert-result logger appended
LastExpertRecord ==
    sessions[ThisDir].expert_log[Len(sessions[ThisDir].expert_log)]

\* C23: the expert and the MCP tools of the record are those of the scan of
\* the decodable lines alone, the lines after an undecodable one included,
\* whatever text the undecodable line holds; mcp_count is the number of
\* distinct tools recorded.
C23_LoggerSkipsCorruptLines ==
    ExpertLogged =>
        LET alone == ExpertScan(ExpertStart, SelectSeq(read, Decodes))
        IN  /\ LastExpertRecord.expert = alone.expert
            /\ Range(LastExpertRecord.mcps_used) = alone.mcps
            /\ LastExpertRecord.mcp_count = Cardinality(alone.mcps)

\* the task loggers that have resolved their log directory
ResolvedLoggers ==
    {q \in DOMAIN procs : /\ procs[q].hook = "task-logger"
                          /\ procs[q].pc \in {"resolved", "done"}}

\* C24: over a writable primary directory, however the probes of task
\* loggers that run at the same time interleave, every task logger resolves
\* the primary directory, none falls back to the home-rooted directory, and
\* every record is in the daily file of the primary directory.
C24_ProbesDoNotDisturb ==
    perm[TmpDir] = "rw" =>
        /\ \A q \in ResolvedLoggers : procs[q].dir = PrimaryDir(Env(Unset, Unset))
        /\ \A d \in LogDirs \ {TmpDir} : logs[d].tasks = <<>>
        /\ \A q \in ResolvedLoggers :
              procs[q].pc = "done" =>
                  /\ procs[q].line \in 1..Len(logs[TmpDir].tasks)
                  /\ logs[TmpDir].tasks[procs[q].line] = procs[q].data

\* the invocation of the checkpoint hook wrote a checkpoint of a transcript
\* it could read
CheckpointWritten ==
    /\ CheckpointCalled
    /\ stdout # <<>>
    /\ Readable(GetStr(input.transcript_path, ""))

\* C25: every element of experts_used (summary) and of experts_active
\* (checkpoint) is the non-empty subagent_type of a decodable line of the
\* transcript; the empty string is no element, makes no pattern
\* "multi-expert" and no resume instruction.
C25_OnlyIdentifiersAreExperts ==
    /\ SummaryWritten =>
          LET sm == sessions[ThisDir].summary[1]
          IN  /\ Range(sm.experts_used) \subseteq ExpertIdsIn(read)
              /\ sm.orchestration_pattern = "multi-expert" =>
                    Cardinality(Range(sm.experts_used) \ {""}) > 1
    /\ CheckpointWritten =>
          LET cp == sessions[ThisDir].checkpoints[CheckpointName(at)]
              ri == cp.resume_instructions
          IN  /\ Range(cp.experts_active) \subseteq ExpertIdsIn(read)
              /\ \A i \in InstructionsOf(ri, "experts") :
                    Range(ri[i].experts) \ {""} # {}

====
